---- MODULE Spec2Model ----
(***************************************************************************)
(* Model of extract_images_from_pdf (src/app.py): per page, collect the    *)
(* placed images, order them in reading order (rows top-to-bottom, items   *)
(* left-to-right), then decode, normalise, size-filter and name each one.  *)
(*                                                                         *)
(* Coordinates and pixel sizes are small integers standing for the page    *)
(* coordinates and pixel dimensions of the program.  A string is the       *)
(* sequence of its code points, so that filenames can be compared.         *)
(***************************************************************************)
EXTENDS Integers, Sequences, FiniteSets, TLC

\* ---- bounds of the model ------------------------------------------------
MaxPages == 2      \* pages of a document
MaxDocImgs == 2    \* entries of page.get_images() over the whole document
MaxTol == 1        \* row_tolerance ranges over MinTol..MaxTol
MinSize == 2       \* the value of min_width and of min_height
SeqMaxImgs == 3    \* page size when the sequencer is checked on its own
SeqMaxTol == 2     \* there, row_tolerance ranges over MinTol..SeqMaxTol
MaxX == 1          \* there, x0 of a placement rectangle ranges over 0..MaxX
MaxY == 3          \* and y0 over 0..MaxY
MaxSeq == 1001     \* counter values reached when filenames are checked

\* ---- program constants --------------------------------------------------
MinTol == 0        \* lower end of the "Row Alignment" slider
PadWidth == 3      \* the 03d of the filename format
Base == 10         \* the d of the filename format

VARIABLES
    pc,               \* position in extract_images_from_pdf
    total_pages,      \* len(doc)
    page_index,       \* index of the page being processed (0-based)
    budget,           \* images the document may still hold (model bound)
    row_tolerance, min_width, min_height,   \* sidebar settings
    image_list,       \* page.get_images(): per entry its rects (<<>> or <<[x,y]>>)
    images_on_page,   \* list of [y, x, xref]
    sorted_final,     \* the page's reading order
    rows,             \* history: the rows closed by the grouping scan, in order
    idx,              \* position of the extraction loop in sorted_final (1-based)
    last,             \* history: what the latest loop iteration did
    global_count,
    extracted_images, \* list of [filename, bytes]
    fmt_in,           \* filename check: two (global_count, page number) pairs
    fmt_out           \* filename check: the two filenames made from fmt_in

vars == <<pc, total_pages, page_index, budget, row_tolerance, min_width, min_height,
          image_list, images_on_page, sorted_final, rows, idx, last,
          global_count, extracted_images, fmt_in, fmt_out>>

\* ---- helpers ------------------------------------------------------------
Abs(v) == IF v < 0 THEN -v ELSE v

RECURSIVE Flatten(_)
Flatten(ss) == IF ss = <<>> THEN <<>> ELSE Head(ss) \o Flatten(Tail(ss))

RECURSIVE SeqsUpTo(_, _)
\* all sequences over S of length at most n
SeqsUpTo(S, n) ==
    IF n = 0 THEN {<<>>}
    ELSE LET shorter == SeqsUpTo(S, n - 1)
         IN shorter \cup {Append(s, e) : s \in {t \in shorter : Len(t) = n - 1}, e \in S}

\* ---- list.sort(key=...): stable, ascending ------------------------------
\* mutant: the vertical sort descending
KeyYDescending(k) == 0 - k.y

KeyY(k) == k.y

\* mutant: rows sorted by the wrong key
KeyXIsY(k) == k.y

KeyX(k) == k.x

RECURSIVE InsertByY(_, _)
\* e goes after every element whose key is <= its own (stability)
InsertByY(s, e) ==
    IF s = <<>> THEN <<e>>
    ELSE IF KeyY(e) < KeyY(Head(s)) THEN <<e>> \o s
    ELSE <<Head(s)>> \o InsertByY(Tail(s), e)

RECURSIVE SortByY(_)
SortByY(s) ==
    IF s = <<>> THEN <<>>
    ELSE InsertByY(SortByY(SubSeq(s, 1, Len(s) - 1)), s[Len(s)])

RECURSIVE InsertByX(_, _)
InsertByX(s, e) ==
    IF s = <<>> THEN <<e>>
    ELSE IF KeyX(e) < KeyX(Head(s)) THEN <<e>> \o s
    ELSE <<Head(s)>> \o InsertByX(Tail(s), e)

RECURSIVE SortByX(_)
SortByX(s) ==
    IF s = <<>> THEN <<>>
    ELSE InsertByX(SortByX(SubSeq(s, 1, Len(s) - 1)), s[Len(s)])

\* ---- 1. gather images and positions (lines 51-62) -------------------------
RECURSIVE Gather(_, _)
\* il: the page's image list, entry i has xref i and the rects il[i]
Gather(il, i) ==
    IF i > Len(il) THEN <<>>
    ELSE (IF il[i] # <<>>
          THEN <<[y |-> il[i][1].y, x |-> il[i][1].x, xref |-> i]>>
          ELSE <<>>) \o Gather(il, i + 1)

\* ---- 3. group into rows (lines 68-88) -------------------------------------
\* mutant: inclusive comparison
SameRowInclusive(img, prev_img, tol) == Abs(img.y - prev_img.y) <= tol

SameRow(img, prev_img, tol) == Abs(img.y - prev_img.y) < tol

RECURSIVE Scan(_, _, _, _, _, _)
\* the loop of lines 71-84 from index i on, then lines 87-88;
\* out is sorted_final, closed the rows closed so far
Scan(imgs, i, current_row, out, closed, tol) ==
    IF i > Len(imgs)
    THEN [sorted_final |-> out \o SortByX(current_row),
          rows |-> Append(closed, SortByX(current_row))]
    ELSE IF SameRow(imgs[i], current_row[Len(current_row)], tol)
    THEN Scan(imgs, i + 1, Append(current_row, imgs[i]), out, closed, tol)
    ELSE Scan(imgs, i + 1, <<imgs[i]>>, out \o SortByX(current_row),
              Append(closed, SortByX(current_row)), tol)

\* mutant: lines 87-88 left out, the last row is never added
GroupRowsNoLastRow(imgs, tol) ==
    IF imgs = <<>> THEN [sorted_final |-> <<>>, rows |-> <<>>]
    ELSE LET g == Scan(imgs, 2, <<imgs[1]>>, <<>>, <<>>, tol)
             n == Len(g.rows)
         IN [sorted_final |-> SubSeq(g.sorted_final, 1,
                                     Len(g.sorted_final) - Len(g.rows[n])),
             rows |-> SubSeq(g.rows, 1, n - 1)]

GroupRows(imgs, tol) ==
    IF imgs = <<>> THEN [sorted_final |-> <<>>, rows |-> <<>>]
    ELSE Scan(imgs, 2, <<imgs[1]>>, <<>>, <<>>, tol)

\* the whole of steps 1-3 for one page
Layout(il, tol) ==
    LET gathered == Gather(il, 1)
        by_y == SortByY(gathered)
        g == GroupRows(by_y, tol)
    IN [images_on_page |-> by_y, sorted_final |-> g.sorted_final, rows |-> g.rows]

\* ---- pixmaps (lines 94-101) ---------------------------------------------
\* n counts the components, alpha included: gray 1, RGB 3, CMYK 4
ColorKinds == {[n |-> c + a, alpha |-> a] : c \in {1, 3, 4}, a \in {0, 1}}

\* widths and heights around the thresholds: one below, equal, one above
Dims == (MinSize - 1)..(MinSize + 1)

Pixmaps == {[n |-> k.n, alpha |-> k.alpha, width |-> w, height |-> h] :
               k \in ColorKinds, w \in Dims, h \in Dims}

NoPix == [n |-> 0, alpha |-> 0, width |-> 0, height |-> 0]

\* mutant: the conversion is never taken
NeedsRGBNever(pix) == pix.n - pix.alpha < 1

\* line 97
NeedsRGB(pix) == pix.n - pix.alpha < 3

\* line 98, fitz.Pixmap(fitz.csRGB, pix): three colour components, alpha and
\* dimensions kept
ToRGB(pix) == [pix EXCEPT !.n = 3 + pix.alpha]

\* lines 97-98
Normalize(pix) == IF NeedsRGB(pix) THEN ToRGB(pix) ELSE pix

\* the pixmaps line 101 can see: a decoded pixmap after lines 97-98
Normalized == {Normalize(src) : src \in Pixmaps}

\* their sizes
Sizes == {[width |-> pix.width, height |-> pix.height] : pix \in Normalized}

\* mutant: exclusive bounds
PassesSizeStrict(pix, mw, mh) == pix.width > mw /\ pix.height > mh

\* line 101
PassesSize(pix, mw, mh) == pix.width >= mw /\ pix.height >= mh

\* line 105, pix.tobytes("png"): PyMuPDF raises "unsupported colorspace for
\* 'png'" when the colorspace has more than three components
PngSupported(pix) == pix.n - pix.alpha <= 3

\* ---- filenames (line 108) -------------------------------------------------
RECURSIVE Digits(_)
\* decimal digits of n >= 0 as code points
Digits(n) == IF n < Base THEN <<48 + n>> ELSE Append(Digits(n \div Base), 48 + (n % Base))

RECURSIVE ZeroPad(_, _)
ZeroPad(s, w) == IF Len(s) >= w THEN s ELSE ZeroPad(<<48>> \o s, w)

\* mutant: no zero padding, {n:d}
FmtNoPad(n) == Digits(n)

\* {n:03d}
Fmt03d(n) == ZeroPad(Digits(n), PadWidth)

\* f"img_{global_count:03d}_page{page}.png"
FileName(count, page) ==
    <<105, 109, 103, 95>> \o Fmt03d(count) \o <<95, 112, 97, 103, 101>>
        \o Digits(page) \o <<46, 112, 110, 103>>

\* mutant: files numbered by the position on the page
EntryPerPage(count, page, pix) == [filename |-> FileName(idx, page), bytes |-> pix]

\* the entry of line 109; bytes stands for the PNG by the pixmap it encodes
Entry(count, page, pix) == [filename |-> FileName(count, page), bytes |-> pix]

\* ---- the state machine ----------------------------------------------------
\* get_image_rects() of an image when whole documents are run: one of three
\* placements (two side by side, one below)
Rects == {<<[x |-> 1, y |-> 0]>>, <<[x |-> 0, y |-> 0]>>, <<[x |-> 0, y |-> 1]>>}

SeqRects == {<<>>} \cup {<<[x |-> x, y |-> y]>> : x \in 0..MaxX, y \in 0..MaxY}

NoLast == [xref |-> 0, status |-> "none", width |-> 0, height |-> 0]

\* lines 29-44: the settings, the opened document, the empty result
Start(pages, tolerances) ==
    /\ pc = "page"
    /\ total_pages \in pages
    /\ page_index = 0
    /\ budget = MaxDocImgs
    /\ row_tolerance \in tolerances
    /\ min_width = MinSize
    /\ min_height = MinSize
    /\ image_list = <<>>
    /\ images_on_page = <<>>
    /\ sorted_final = <<>>
    /\ rows = <<>>
    /\ idx = 1
    /\ last = NoLast
    /\ global_count = 0
    /\ extracted_images = <<>>
    /\ fmt_in = <<>>
    /\ fmt_out = <<>>

Init == Start(0..MaxPages, MinTol..MaxTol)

\* lines 46-88 for one page whose image list is il
ScanPage(il) ==
    LET l == Layout(il, row_tolerance)
    IN /\ image_list' = il
       /\ images_on_page' = l.images_on_page
       /\ sorted_final' = l.sorted_final
       /\ rows' = l.rows
       /\ idx' = 1
       /\ last' = NoLast
       /\ pc' = "extract"

StartPage ==
    /\ pc = "page"
    /\ page_index < total_pages
    /\ \E il \in SeqsUpTo(Rects, budget) :
          /\ ScanPage(il)
          /\ budget' = budget - Len(il)
    /\ UNCHANGED <<total_pages, page_index, row_tolerance, min_width, min_height,
                   global_count, extracted_images, fmt_in, fmt_out>>

\* mutant: the try block around the loop, an iteration that does not append
\* ends the page
SkipEndsPage(status, pix, count) ==
    /\ last' = [xref |-> sorted_final[idx].xref, status |-> status,
                width |-> pix.width, height |-> pix.height]
    /\ idx' = Len(sorted_final) + 1
    /\ global_count' = count
    /\ UNCHANGED <<pc, total_pages, page_index, budget, row_tolerance, min_width,
                   min_height, image_list, images_on_page, sorted_final, rows,
                   extracted_images, fmt_in, fmt_out>>

\* one iteration of the loop of line 91 that ends without an append
Skip(status, pix, count) ==
    /\ last' = [xref |-> sorted_final[idx].xref, status |-> status,
                width |-> pix.width, height |-> pix.height]
    /\ idx' = idx + 1
    /\ global_count' = count
    /\ UNCHANGED <<pc, total_pages, page_index, budget, row_tolerance, min_width,
                   min_height, image_list, images_on_page, sorted_final, rows,
                   extracted_images, fmt_in, fmt_out>>

InLoop == pc = "extract" /\ idx <= Len(sorted_final)

\* line 94 raises
DecodeFail ==
    /\ InLoop
    /\ Skip("decode_fail", NoPix, global_count)

\* line 98 raises
ConvertFail ==
    /\ InLoop
    /\ \E src \in Pixmaps : NeedsRGB(src)
    /\ Skip("convert_fail", NoPix, global_count)

\* line 101 is false
Filtered ==
    /\ InLoop
    /\ \E pix \in Sizes :
          /\ ~PassesSize(pix, min_width, min_height)
          /\ Skip("filtered", pix, global_count)

\* line 105 raises, after line 102 has run
EncodeFail ==
    /\ InLoop
    /\ \E pix \in Sizes :
          /\ PassesSize(pix, min_width, min_height)
          /\ Skip("encode_fail", pix, global_count + 1)

\* lines 102-109
Emit ==
    /\ InLoop
    /\ \E pix \in Normalized :
          /\ PassesSize(pix, min_width, min_height)
          /\ PngSupported(pix)
          /\ global_count' = global_count + 1
          /\ extracted_images' =
                Append(extracted_images, Entry(global_count + 1, page_index + 1, pix))
          /\ last' = [xref |-> sorted_final[idx].xref, status |-> "emitted",
                      width |-> pix.width, height |-> pix.height]
    /\ idx' = idx + 1
    /\ UNCHANGED <<pc, total_pages, page_index, budget, row_tolerance, min_width,
                   min_height, image_list, images_on_page, sorted_final, rows,
                   fmt_in, fmt_out>>

\* the loop of line 91 is over: next iteration of line 46
EndPage ==
    /\ pc = "extract"
    /\ idx > Len(sorted_final)
    /\ page_index' = page_index + 1
    /\ pc' = "page"
    /\ UNCHANGED <<total_pages, budget, row_tolerance, min_width, min_height,
                   image_list, images_on_page, sorted_final, rows, idx, last,
                   global_count, extracted_images, fmt_in, fmt_out>>

\* line 115
Return ==
    /\ pc = "page"
    /\ page_index = total_pages
    /\ pc' = "done"
    /\ UNCHANGED <<total_pages, page_index, budget, row_tolerance, min_width,
                   min_height, image_list, images_on_page, sorted_final, rows, idx,
                   last, global_count, extracted_images, fmt_in, fmt_out>>

Next ==
    \/ StartPage
    \/ DecodeFail
    \/ ConvertFail
    \/ Filtered
    \/ EncodeFail
    \/ Emit
    \/ EndPage
    \/ Return

Spec == Init /\ [][Next]_vars

\* ---- the sequencer on its own: steps 1-3 on one page ----------------------
SeqInit == Start({1}, MinTol..SeqMaxTol)

SeqScan ==
    /\ pc = "page"
    /\ page_index < total_pages
    /\ \E il \in SeqsUpTo(SeqRects, SeqMaxImgs) : ScanPage(il)
    /\ UNCHANGED <<total_pages, page_index, budget, row_tolerance, min_width,
                   min_height, global_count, extracted_images, fmt_in, fmt_out>>

SeqNext == SeqScan

SpecSeq == SeqInit /\ [][SeqNext]_vars

\* ---- the filename format on its own (line 108) ----------------------------
\* two appends of one run: the later one has the larger counter (line 102) and
\* a page number at least as large (line 46)
FmtInit == Start({MaxPages}, {MinTol})

\* the later of two appends of one run
FmtPick ==
    /\ fmt_in = <<>>
    /\ \E c2 \in 2..MaxSeq, p2 \in 1..MaxPages :
          fmt_in' = <<[count |-> c2, page |-> p2]>>
    /\ UNCHANGED <<pc, total_pages, page_index, budget, row_tolerance, min_width,
                   min_height, image_list, images_on_page, sorted_final, rows, idx,
                   last, global_count, extracted_images, fmt_out>>

\* the earlier append: a smaller counter (line 102), no later page (line 46)
FmtEarlier ==
    /\ Len(fmt_in) = 1
    /\ \E c1 \in 1..(fmt_in[1].count - 1), p1 \in 1..fmt_in[1].page :
          fmt_in' = <<[count |-> c1, page |-> p1], fmt_in[1]>>
    /\ UNCHANGED <<pc, total_pages, page_index, budget, row_tolerance, min_width,
                   min_height, image_list, images_on_page, sorted_final, rows, idx,
                   last, global_count, extracted_images, fmt_out>>

FmtApply ==
    /\ Len(fmt_in) = 2
    /\ fmt_out = <<>>
    /\ fmt_out' = <<FileName(fmt_in[1].count, fmt_in[1].page),
                    FileName(fmt_in[2].count, fmt_in[2].page)>>
    /\ UNCHANGED <<pc, total_pages, page_index, budget, row_tolerance, min_width,
                   min_height, image_list, images_on_page, sorted_final, rows, idx,
                   last, global_count, extracted_images, fmt_in>>

FmtNext ==
    \/ FmtPick
    \/ FmtEarlier
    \/ FmtApply

SpecFmt == FmtInit /\ [][FmtNext]_vars

\* ==== properties ===========================================================
CountIn(s, e) == Cardinality({i \in DOMAIN s : s[i] = e})

IsPermutation(s, t) ==
    /\ Len(s) = Len(t)
    /\ \A i \in DOMAIN t : CountIn(s, t[i]) = CountIn(t, t[i])

NonDecreasingX(s) == \A i \in 1..(Len(s) - 1) : s[i].x <= s[i + 1].x

SameY(s) == \A i \in DOMAIN s : s[i].y = s[1].y

Sequenced == pc = "extract"

\* C1: the sequencer's output is a permutation of the images collected on the
\* page: each collected ImageRef occurs in sorted_final exactly as often as in
\* images_on_page and in the gathered list, and nothing else occurs.
C1_Permutation ==
    Sequenced =>
        /\ IsPermutation(sorted_final, images_on_page)
        /\ IsPermutation(sorted_final, Gather(image_list, 1))

C1_Witness ==
    /\ Sequenced
    /\ Len(images_on_page) = 3
    /\ Len(rows) = 2
    /\ sorted_final # images_on_page

\* C7: within every row closed by the grouping scan, the final row included, x
\* is non-decreasing from one member to the next; the rows, concatenated in the
\* order they were closed, are the output.
C7_RowMonotone ==
    Sequenced =>
        /\ \A r \in DOMAIN rows : NonDecreasingX(rows[r])
        /\ sorted_final = Flatten(rows)

C7_Witness ==
    /\ Sequenced
    /\ Len(rows) = 2
    /\ \E r \in DOMAIN rows :
          /\ Len(rows[r]) = 2
          /\ rows[r][1].x < rows[r][2].x
          /\ rows[r][1].xref > rows[r][2].xref

\* C8: rows appear top to bottom: the first member of a row is not above the
\* first member of the row before it, and no member of a row is above any
\* member of the row before it.
C8_RowOrder ==
    Sequenced =>
        \A r \in 1..(Len(rows) - 1) :
            /\ rows[r + 1][1].y >= rows[r][1].y
            /\ \A a \in DOMAIN rows[r], b \in DOMAIN rows[r + 1] :
                  rows[r + 1][b].y >= rows[r][a].y

C8_Witness ==
    /\ Sequenced
    /\ Len(rows) = 2
    /\ Len(rows[1]) = 2
    /\ rows[1][1].y > rows[1][2].y

\* C10 as claimed: for every tolerance, 0 included, images that all share one y
\* form exactly one row, and the output is sorted by x.
C10_AsClaimed ==
    (Sequenced /\ images_on_page # <<>> /\ SameY(images_on_page)) =>
        /\ Len(rows) = 1
        /\ NonDecreasingX(sorted_final)

\* C10 amended: images that all share one y form exactly one row, sorted by x,
\* for every tolerance of at least 1; with tolerance 0 every image is a row of
\* its own and the output is the collection order.
C10_IdenticalY ==
    (Sequenced /\ images_on_page # <<>> /\ SameY(images_on_page)) =>
        /\ row_tolerance >= 1 =>
              /\ Len(rows) = 1
              /\ NonDecreasingX(sorted_final)
        /\ row_tolerance = 0 =>
              /\ Len(rows) = Len(images_on_page)
              /\ sorted_final = Gather(image_list, 1)

C10_Witness ==
    /\ Sequenced
    /\ Len(images_on_page) = 3
    /\ SameY(images_on_page)
    /\ row_tolerance >= 1
    /\ sorted_final # images_on_page
    /\ Len(rows) = 1

\* ---- the whole run ------------------------------------------------------------
RECURSIVE ParseDigits(_, _, _)
\* the number written by the digits of s from position i on
ParseDigits(s, i, acc) ==
    IF i > Len(s) \/ s[i] < 48 \/ s[i] > 57 THEN acc
    ELSE ParseDigits(s, i + 1, acc * Base + (s[i] - 48))

\* the sequence number of a filename: the digits after "img_"
SeqNo(fn) == ParseDigits(fn, 5, 0)

RECURSIVE LexLess(_, _)
\* string comparison a < b, by code points
LexLess(a, b) ==
    IF b = <<>> THEN FALSE
    ELSE IF a = <<>> THEN TRUE
    ELSE IF Head(a) # Head(b) THEN Head(a) < Head(b)
    ELSE LexLess(Tail(a), Tail(b))

Failures == {"decode_fail", "convert_fail", "encode_fail"}

\* C2: the sequence numbers of the filenames in extracted_images are strictly
\* increasing in the order of the appends, so no two are equal.
C2_SeqIncreasing ==
    \A i, j \in DOMAIN extracted_images :
        i < j => SeqNo(extracted_images[i].filename) < SeqNo(extracted_images[j].filename)

C2_Witness ==
    /\ Len(extracted_images) = 2
    /\ extracted_images[1].filename = FileName(1, 1)
    /\ extracted_images[2].filename = FileName(2, 2)

\* C3 as claimed: every appended image meets both bounds, and every image of
\* the sequence that was not appended was measured and violated a bound.
C3_AsClaimed ==
    /\ \A i \in DOMAIN extracted_images :
          PassesSize(extracted_images[i].bytes, min_width, min_height)
    /\ last.status \notin {"none", "emitted"} =>
          /\ last.status \notin {"decode_fail", "convert_fail"}
          /\ last.width < min_width \/ last.height < min_height

\* C3 amended: every appended image has width >= min_width and height >=
\* min_height, and every image that was not appended and did not fail in decode,
\* conversion or encoding violated at least one of the two bounds.
C3_SizeFilter ==
    /\ \A i \in DOMAIN extracted_images :
          /\ extracted_images[i].bytes.width >= min_width
          /\ extracted_images[i].bytes.height >= min_height
    /\ last.status \notin ({"none", "emitted"} \cup Failures) =>
          last.width < min_width \/ last.height < min_height

C3_Witness ==
    /\ Len(extracted_images) = 1
    /\ extracted_images[1].bytes.width = min_width
    /\ extracted_images[1].bytes.height > min_height
    /\ last.status = "filtered"
    /\ last.width >= min_width
    /\ last.height = min_height - 1

\* C4: global_count is the number of images appended so far, and the appended
\* filenames are numbered 1, 2, 3, ... without gaps.
C4_CounterIsAppended ==
    /\ global_count = Len(extracted_images)
    /\ \A i \in DOMAIN extracted_images : SeqNo(extracted_images[i].filename) = i

\* C5: a failing image is skipped and nothing else: the loop goes on with the
\* next image of the page, which can still be emitted, every page is scanned
\* to its end, and the run returns only after the last page.
C5_FailureIsolated ==
    /\ (pc = "extract" /\ idx > 1) =>
          /\ idx <= Len(sorted_final) + 1
          /\ last.status # "none"
          /\ last.xref = sorted_final[idx - 1].xref
    /\ (pc = "extract" /\ idx <= Len(sorted_final)) => ENABLED Emit
    /\ (pc = "page" /\ page_index > 0) => idx = Len(sorted_final) + 1
    /\ pc = "done" => page_index = total_pages

C5_Witness ==
    /\ last.status = "emitted"
    /\ Len(extracted_images) = 1
    /\ global_count = 2
    /\ idx = 3

NormalizeKeepsSize ==
    \A src \in Pixmaps :
        /\ Normalize(src).width = src.width
        /\ Normalize(src).height = src.height

C9_LexOrder ==
    (fmt_out # <<>> /\ fmt_in[2].count < 1000) =>
        /\ LexLess(fmt_out[1], fmt_out[2])
        /\ fmt_out[1] # fmt_out[2]

C9_Witness ==
    /\ fmt_out # <<>>
    /\ fmt_in[1].count = 99
    /\ fmt_in[2].count = 100
    /\ fmt_in[1].page = 2
    /\ fmt_in[2].page = 2

====
